---- MODULE Spec2Model ----
(***************************************************************************)
(* AyumiISO (src/src/main.rs): the AyumiApp state, the UI thread running   *)
(* eframe's update() frame by frame, and the background copy threads that  *)
(* manual_copy_iso spawns.                                                  *)
(*                                                                         *)
(* Strings are sequences of tokens; "/" is the path separator token.       *)
(* Option<T> is a sequence of length 0 (None) or 1 (Some(x)).              *)
(* f32 progress takes the two values the code writes: 0 (0.0) and 1 (1.0). *)
(***************************************************************************)
EXTENDS Integers, Sequences, FiniteSets, TLC

\* ------------------------------------------------------------------ bounds
\* Number of background threads manual_copy_iso may spawn in one run.
MaxThreads == 2
\* Length up to which the history of polled progress values is kept per thread.
MaxPolls == 3

\* ------------------------------------------------------- values and helpers
None == <<>>
Some(x) == <<x>>

Sep == "/"
Usb1 == <<Sep, "media", Sep, "user", Sep, "USB1 (16GB)">>
Usb2 == <<Sep, "media", Sep, "user", Sep, "USB2 (32GB)">>

\* Faulty variant of get_usb_drives: a drive is listed twice.
get_usb_drives_repeated == <<Usb1, Usb2, Usb1>>

\* get_usb_drives(): the mock list of two drives.
get_usb_drives == <<Usb1, Usb2>>

\* The image file the file dialog can pick, and the texts a user can type
\* into the ISO text field: nothing, the root directory, the image file.
ImageFile == <<Sep, "a.iso">>
RootDir == <<Sep>>
TypedPaths == {<<>>, RootDir, ImageFile}

\* Path::components(): the tokens between separators, "." and empty dropped.
RECURSIVE Components(_)
Components(s) ==
    IF s = <<>> THEN <<>>
    ELSE IF Head(s) = Sep \/ Head(s) = "." THEN Components(Tail(s))
    ELSE <<Head(s)>> \o Components(Tail(s))

\* Path::file_name(): the last component when it is a normal one; None for
\* the empty path, the root, and a path ending in "..".
file_name(p) ==
    LET c == Components(p) IN
    IF c = <<>> THEN None
    ELSE IF c[Len(c)] = ".." THEN None
    ELSE Some(c[Len(c)])

\* Path::join() with a relative name: the name appended after a separator.
join(base, name) ==
    IF base # <<>> /\ base[Len(base)] = Sep THEN base \o <<name>>
    ELSE base \o <<Sep, name>>

\* format!("Are you sure you want to copy\n{}\nto {}?", iso_path, usb_path.display())
ConfirmText(iso, usb) ==
    <<"Are you sure you want to copy\n">> \o iso \o <<"\nto ">> \o usb \o <<"?">>

\* The std::io::Error texts std::fs::copy can fail with.
NotFound == "No such file or directory (os error 2)"
WriteFailed == "Input/output error (os error 5)"

\* format!("Copy failed: {}", e)
CopyFailedText(e) == <<"Copy failed: ", e>>

ErrNoIso == <<"Please select an ISO file">>
ErrNoDrive == <<"Please select a USB drive">>
ErrCancelled == <<"Copy cancelled by user">>
OkText == <<"ISO copied successfully!">>

\* ---------------------------------------------------------------- state
VARIABLES
    iso_path,          \* AyumiApp.iso_path: String
    usb_drives,        \* AyumiApp.usb_drives: Vec<String>
    selected_drive,    \* AyumiApp.selected_drive: Option<String>
    burning_progress,  \* Arc<Mutex<f32>>
    is_burning,        \* Arc<Mutex<bool>>
    burn_error,        \* Arc<Mutex<Option<String>>>
    error_guard,       \* who holds the burn_error mutex across steps: "free" | "ui"
    threads,           \* the spawned copy threads, in spawn order
    readable,          \* file system: TRUE while ImageFile is a readable file
    ui_pc,             \* where the UI thread is inside update()
    ui_is_burning,     \* update()'s local is_burning (line 190)
    ui_progress,       \* update()'s local progress (line 191)
    dialog,            \* the modal dialog on screen: None or Some([title, text])
    call_running,      \* history: is_burning was true when the current manual_copy_iso call began
    confirm_answer,    \* history: what the confirmation dialog of the current call returned
    error_from         \* history: index of the thread whose message burn_error holds, 0 if none

vars == <<iso_path, usb_drives, selected_drive, burning_progress, is_burning,
          burn_error, error_guard, threads, readable, ui_pc, ui_is_burning,
          ui_progress, dialog, call_running, confirm_answer, error_from>>

app == <<iso_path, usb_drives, selected_drive>>
status == <<burning_progress, is_burning, burn_error, error_from>>
ui_locals == <<ui_is_burning, ui_progress>>
call_history == <<call_running, confirm_answer>>

\* AyumiApp::default(), and the UI thread before its first frame.
Init ==
    /\ iso_path = <<>>
    /\ usb_drives = get_usb_drives
    /\ selected_drive = None
    /\ burning_progress = 0
    /\ is_burning = FALSE
    /\ burn_error = None
    /\ error_guard = "free"
    /\ threads = <<>>
    /\ readable = TRUE
    /\ ui_pc = "widgets"
    /\ ui_is_burning = FALSE
    /\ ui_progress = 0
    /\ dialog = None
    /\ call_running = FALSE
    /\ confirm_answer = None
    /\ error_from = 0

Threads == 1..Len(threads)

\* A thread is in flight from its spawn until its closure returns or unwinds.
InFlight(i) == threads[i].pc \notin {"done", "panicked"}

Dialog(title, text) == Some([title |-> title, text |-> text])

\* ------------------------------------------------- UI thread: update()
\* Lines 129-141: the text field takes what the user types.
EditIsoPath(p) ==
    /\ ui_pc = "widgets"
    /\ iso_path' = p
    /\ UNCHANGED <<usb_drives, selected_drive, status, error_guard, threads,
                   readable, ui_pc, ui_locals, dialog, call_history>>

\* Lines 133-140: Browse; pick_file() returns an existing file or nothing.
Browse(picked) ==
    /\ ui_pc = "widgets"
    /\ picked # None => readable
    /\ iso_path' = IF picked # None THEN picked[1] ELSE iso_path
    /\ UNCHANGED <<usb_drives, selected_drive, status, error_guard, threads,
                   readable, ui_pc, ui_locals, dialog, call_history>>

\* Lines 157-160: the refresh button.
RefreshDrives ==
    /\ ui_pc = "widgets"
    /\ usb_drives' = get_usb_drives
    /\ UNCHANGED <<iso_path, selected_drive, status, error_guard, threads,
                   readable, ui_pc, ui_locals, dialog, call_history>>

\* Lines 162-179: a click on the button of drive number k.
SelectDrive(k) ==
    /\ ui_pc = "widgets"
    /\ k \in 1..Len(usb_drives)
    /\ selected_drive' = Some(usb_drives[k])
    /\ UNCHANGED <<iso_path, usb_drives, status, error_guard, threads,
                   readable, ui_pc, ui_locals, dialog, call_history>>

\* Line 190: let is_burning = *self.is_burning.lock().unwrap();
PollIsBurning ==
    /\ ui_pc = "widgets"
    /\ ui_is_burning' = is_burning
    /\ ui_pc' = "poll_progress"
    /\ UNCHANGED <<app, status, error_guard, threads, readable, ui_progress,
                   dialog, call_history>>

\* History kept with each thread: the values of progress the UI read while
\* the thread was in flight, repeated values written once.
Polled(t, v) ==
    IF t.pc \in {"done", "panicked"} THEN t
    ELSE IF t.polls # <<>> /\ t.polls[Len(t.polls)] = v THEN t
    ELSE IF Len(t.polls) >= MaxPolls THEN t
    ELSE [t EXCEPT !.polls = Append(@, v)]

\* Line 191: let progress = *self.burning_progress.lock().unwrap();
PollProgress ==
    /\ ui_pc = "poll_progress"
    /\ ui_progress' = burning_progress
    /\ threads' = [i \in Threads |-> Polled(threads[i], burning_progress)]
    /\ ui_pc' = "button"
    /\ UNCHANGED <<app, status, error_guard, readable, ui_is_burning,
                   dialog, call_history>>

\* Line 203: the copy button was not clicked in this frame.
NoClick ==
    /\ ui_pc = "button"
    /\ ui_pc' = "check_error"
    /\ UNCHANGED <<app, status, error_guard, threads, readable, ui_locals,
                   dialog, call_history>>

\* Faulty variant of Validate: the check of the ISO path is missing.
ValidateDriveOnly(iso, drive) ==
    IF drive = None THEN Some(ErrNoDrive) ELSE None

\* Lines 50-56: the checks manual_copy_iso makes before it asks; None when
\* the call goes on to the confirmation dialog.
Validate(iso, drive) ==
    IF iso = <<>> THEN Some(ErrNoIso)
    ELSE IF drive = None THEN Some(ErrNoDrive)
    ELSE None

\* Lines 203-204 and 49-70: the click calls manual_copy_iso, which returns
\* Err at once (shown by lines 211-216) or shows the confirmation dialog.
ClickCopy ==
    /\ ui_pc = "button"
    /\ LET v == Validate(iso_path, selected_drive) IN
       IF v # None
       THEN /\ dialog' = Dialog("Error", v[1])
            /\ ui_pc' = "result_dialog"
            /\ call_running' = FALSE
       ELSE /\ dialog' = Dialog("Confirm ISO Copy",
                                ConfirmText(iso_path, selected_drive[1]))
            /\ ui_pc' = "confirm"
            /\ call_running' = is_burning
    /\ confirm_answer' = None
    /\ UNCHANGED <<app, status, error_guard, threads, readable, ui_locals>>

\* Faulty variant of Confirmed: the answer is not looked at.
ConfirmedWhateverAnswer(answer) == answer \in {"Yes", "No"}

\* Faulty variant of Confirmed: every answer but No lets the copy go ahead.
ConfirmedUnlessNo(answer) == answer # "No"

\* Line 72: the answer that lets the copy go ahead.
Confirmed(answer) == answer = "Yes"

\* Lines 74-81: the closure's captures, and the thread at its first statement.
\* confirm/answer, spawned_alone (no other thread was in flight at the spawn),
\* copied_from/copied_to, polls and log are history.
NewThread(iso, usb, text, answer) ==
    [pc |-> "start", iso_path |-> iso, usb_path |-> usb,
     confirm |-> text, answer |-> answer,
     spawned_alone |-> \A j \in Threads : ~InFlight(j),
     result |-> None, copied_from |-> None, copied_to |-> None,
     polls |-> <<>>, log |-> <<>>]

\* Faulty variant of AnswerConfirm: the declined call returns Ok(()) as well.
AnswerConfirmAlwaysOk(answer) ==
    /\ ui_pc = "confirm"
    /\ IF Confirmed(answer)
       THEN /\ Len(threads) < MaxThreads
            /\ threads' = Append(threads,
                    NewThread(iso_path, selected_drive[1], dialog[1].text, answer))
       ELSE threads' = threads
    /\ dialog' = Dialog("Success", OkText)
    /\ ui_pc' = "result_dialog"
    /\ call_running' = FALSE
    /\ confirm_answer' = Some(answer)
    /\ UNCHANGED <<app, status, error_guard, readable, ui_locals>>

\* Lines 72-105 and 205-216: the dialog returns; on Yes the thread is spawned
\* and Ok(()) returned (the success dialog follows), otherwise Err.
AnswerConfirm(answer) ==
    /\ ui_pc = "confirm"
    /\ IF Confirmed(answer)
       THEN /\ Len(threads) < MaxThreads
            /\ threads' = Append(threads,
                    NewThread(iso_path, selected_drive[1], dialog[1].text, answer))
            /\ dialog' = Dialog("Success", OkText)
       ELSE /\ threads' = threads
            /\ dialog' = Dialog("Error", ErrCancelled)
    /\ ui_pc' = "result_dialog"
    /\ call_running' = FALSE
    /\ confirm_answer' = Some(answer)
    /\ UNCHANGED <<app, status, error_guard, readable, ui_locals>>

\* Lines 206-209 and 212-215: show() returns when the user closes the dialog.
DismissResult ==
    /\ ui_pc = "result_dialog"
    /\ dialog' = None
    /\ ui_pc' = "check_error"
    /\ confirm_answer' = None
    /\ UNCHANGED <<app, status, error_guard, threads, readable, ui_locals,
                   call_running>>

\* Lines 221-226: burn_error.lock().unwrap().take(); with Some(error) the
\* dialog is shown while the guard of the `if let` scrutinee is still alive.
\* With None, lines 229-233 end the frame and update()'s locals are gone.
CheckError ==
    /\ ui_pc = "check_error"
    /\ error_guard = "free"
    /\ burn_error' = None
    /\ error_from' = 0
    /\ IF burn_error # None
       THEN /\ dialog' = Dialog("Copying Error", burn_error[1])
            /\ error_guard' = "ui"
            /\ ui_pc' = "copy_error_dialog"
            /\ UNCHANGED ui_locals
       ELSE /\ dialog' = dialog
            /\ error_guard' = error_guard
            /\ ui_pc' = "widgets"
            /\ ui_is_burning' = FALSE
            /\ ui_progress' = 0
    /\ UNCHANGED <<app, burning_progress, is_burning, threads, readable,
                   call_history>>

\* Faulty variant of DismissCopyError: the guard of burn_error outlives the
\* frame (it is kept in a longer-lived binding).
DismissCopyErrorKeepsGuard ==
    /\ ui_pc = "copy_error_dialog"
    /\ dialog' = None
    /\ ui_pc' = "widgets"
    /\ ui_is_burning' = FALSE
    /\ ui_progress' = 0
    /\ UNCHANGED <<app, status, error_guard, threads, readable, call_history>>

\* Lines 222-233: the error dialog is closed, the guard dropped, the frame
\* ends and update()'s locals are gone.
DismissCopyError ==
    /\ ui_pc = "copy_error_dialog"
    /\ dialog' = None
    /\ error_guard' = "free"
    /\ ui_pc' = "widgets"
    /\ ui_is_burning' = FALSE
    /\ ui_progress' = 0
    /\ UNCHANGED <<app, status, threads, readable, call_history>>

\* ------------------------------------- background thread: lines 81-100
\* Thread i after one more statement: its next pc and the write it made.
Step(i, pc, write) ==
    [threads EXCEPT ![i].pc = pc, ![i].log = Append(@, write)]

Write(field, value) == [field |-> field, value |-> value]

\* Line 82: *is_burning.lock().unwrap() = true;
ThreadSetBurning(i) ==
    /\ threads[i].pc = "start"
    /\ is_burning' = TRUE
    /\ threads' = Step(i, "clear", Write("is_burning", TRUE))
    /\ UNCHANGED <<app, burning_progress, burn_error, error_from, error_guard,
                   readable, ui_pc, ui_locals, dialog, call_history>>

\* Faulty variant of ThreadClearError: the error of an earlier transfer is
\* not cleared when a new one starts.
ThreadKeepsError(i) ==
    /\ threads[i].pc = "clear"
    /\ error_guard = "free"
    /\ threads' = [threads EXCEPT ![i].pc = "copy"]
    /\ UNCHANGED <<app, status, error_guard, readable, ui_pc, ui_locals,
                   dialog, call_history>>

\* Line 83: *burn_error.lock().unwrap() = None;
ThreadClearError(i) ==
    /\ threads[i].pc = "clear"
    /\ error_guard = "free"
    /\ burn_error' = None
    /\ error_from' = 0
    /\ threads' = Step(i, "copy", Write("burn_error", None))
    /\ UNCHANGED <<app, burning_progress, is_burning, error_guard,
                   readable, ui_pc, ui_locals, dialog, call_history>>

\* std::fs::copy(from, to): the results it can return with the file system
\* as it is: the source must be a readable file; the write may still fail.
CopyResults(from) ==
    IF from = ImageFile /\ readable THEN {"Ok", WriteFailed} ELSE {NotFound}

\* Faulty variant of ThreadCopy: the thread reads the application's current
\* iso_path and selected_drive instead of the copies made at lines 78-79.
ThreadCopyCurrentRequest(i) ==
    /\ threads[i].pc = "copy"
    /\ LET name == file_name(iso_path)
       IN IF name = None
          THEN threads' = [threads EXCEPT ![i].pc = "panicked"]
          ELSE \E r \in CopyResults(iso_path) :
                 threads' = [threads EXCEPT
                    ![i].pc = IF r = "Ok" THEN "metadata" ELSE "err_write",
                    ![i].result = Some(r),
                    ![i].copied_from = Some(iso_path),
                    ![i].copied_to = Some(join(selected_drive[1], name[1]))]
    /\ UNCHANGED <<app, status, error_guard, readable, ui_pc, ui_locals,
                   dialog, call_history>>

\* Line 85: iso_path.file_name().unwrap() panics on None, before any copy;
\* otherwise std::fs::copy runs and the match takes its arm.
ThreadCopy(i) ==
    /\ threads[i].pc = "copy"
    /\ LET t == threads[i]
           name == file_name(t.iso_path)
       IN IF name = None
          THEN threads' = [threads EXCEPT ![i].pc = "panicked"]
          ELSE \E r \in CopyResults(t.iso_path) :
                 threads' = [threads EXCEPT
                    ![i].pc = IF r = "Ok" THEN "metadata" ELSE "err_write",
                    ![i].result = Some(r),
                    ![i].copied_from = Some(t.iso_path),
                    ![i].copied_to = Some(join(t.usb_path, name[1]))]
    /\ UNCHANGED <<app, status, error_guard, readable, ui_pc, ui_locals,
                   dialog, call_history>>

\* Faulty variant of ProgressAfterCopy: progress falls back to 0.0 when the size of
\* the source cannot be read.
ProgressAfterCopyOrZero(metadata_ok, old) == IF metadata_ok THEN 1 ELSE 0

\* Lines 88-90: the value of progress after the Ok arm's `if let`:
\* 1.0 when std::fs::metadata succeeded, the old value otherwise.
ProgressAfterCopy(metadata_ok, old) == IF metadata_ok THEN 1 ELSE old

\* std::fs::metadata(path) is Ok for a file that is there.
MetadataOk(path) == path = ImageFile /\ readable

\* Lines 88-90: if let Ok(metadata) = ... { *progress.lock().unwrap() = 1.0; }
ThreadOkProgress(i) ==
    /\ threads[i].pc = "metadata"
    /\ LET ok == MetadataOk(threads[i].iso_path) IN
       /\ burning_progress' = ProgressAfterCopy(ok, burning_progress)
       /\ threads' = IF ok
                     THEN Step(i, "ok_end", Write("burning_progress", burning_progress'))
                     ELSE [threads EXCEPT ![i].pc = "ok_end"]
    /\ UNCHANGED <<app, is_burning, burn_error, error_from, error_guard,
                   readable, ui_pc, ui_locals, dialog, call_history>>

\* Faulty variant of ThreadOkEnd: the Ok arm clears the flag before it
\* writes the progress (lines 89 and 91 in the wrong order).
ThreadOkEndBeforeProgress(i) ==
    /\ threads[i].pc = "ok_end"
    /\ is_burning' = FALSE
    /\ threads' = Step(i,
          IF \E k \in 1..Len(threads[i].log) :
                 threads[i].log[k].field = "is_burning" /\ ~threads[i].log[k].value
          THEN "done" ELSE "metadata",
          Write("is_burning", FALSE))
    /\ UNCHANGED <<app, burning_progress, burn_error, error_from, error_guard,
                   readable, ui_pc, ui_locals, dialog, call_history>>

\* Line 91: *is_burning.lock().unwrap() = false; then the closure returns.
ThreadOkEnd(i) ==
    /\ threads[i].pc = "ok_end"
    /\ is_burning' = FALSE
    /\ threads' = Step(i, "done", Write("is_burning", FALSE))
    /\ UNCHANGED <<app, burning_progress, burn_error, error_from, error_guard,
                   readable, ui_pc, ui_locals, dialog, call_history>>

\* Faulty variant of BurnErrorOnFailure: the error is dropped instead of recorded.
BurnErrorDropped(e) == None

\* Line 95: the value written into burn_error for the error e.
BurnErrorOnFailure(e) == Some(CopyFailedText(e))

\* Line 95: *burn_error.lock().unwrap() = Some(format!("Copy failed: {}", e));
ThreadErrWrite(i) ==
    /\ threads[i].pc = "err_write"
    /\ error_guard = "free"
    /\ burn_error' = BurnErrorOnFailure(threads[i].result[1])
    /\ error_from' = i
    /\ threads' = Step(i, "err_end", Write("burn_error", burn_error'))
    /\ UNCHANGED <<app, burning_progress, is_burning, error_guard,
                   readable, ui_pc, ui_locals, dialog, call_history>>

\* Line 96: *is_burning.lock().unwrap() = false; then the closure returns.
ThreadErrEnd(i) ==
    /\ threads[i].pc = "err_end"
    /\ is_burning' = FALSE
    /\ threads' = Step(i, "done", Write("is_burning", FALSE))
    /\ UNCHANGED <<app, burning_progress, burn_error, error_from, error_guard,
                   readable, ui_pc, ui_locals, dialog, call_history>>

\* The next statement of thread i, whichever it is.
ThreadStep(i) ==
    \/ ThreadSetBurning(i)
    \/ ThreadClearError(i)
    \/ ThreadCopy(i)
    \/ ThreadOkProgress(i)
    \/ ThreadOkEnd(i)
    \/ ThreadErrWrite(i)
    \/ ThreadErrEnd(i)

\* The next step of the UI thread inside update(), whichever it is.
UiStep ==
    \/ PollIsBurning
    \/ PollProgress
    \/ NoClick
    \/ ClickCopy
    \/ \E a \in {"Yes", "No", "Cancel"} : AnswerConfirm(a)
    \/ DismissResult
    \/ CheckError
    \/ DismissCopyError

\* ------------------------------------------------------------ environment
\* The image file is removed from, or put back into, the file system that
\* std::fs::copy and std::fs::metadata (lines 85, 88) read.
FsChange ==
    /\ readable' = ~readable
    /\ UNCHANGED <<app, status, error_guard, threads, ui_pc, ui_locals,
                   dialog, call_history>>

\* ---------------------------------------------------------- specification
\* rfd::MessageDialogResult: the buttons are Yes and No; closing the window
\* gives Cancel.
DialogResults == {"Yes", "No", "Cancel"}

Next ==
    \/ \E p \in TypedPaths : EditIsoPath(p)
    \/ \E picked \in {None, Some(ImageFile)} : Browse(picked)
    \/ RefreshDrives
    \/ \E k \in 1..Len(usb_drives) : SelectDrive(k)
    \/ PollIsBurning
    \/ PollProgress
    \/ NoClick
    \/ ClickCopy
    \/ \E a \in DialogResults : AnswerConfirm(a)
    \/ DismissResult
    \/ CheckError
    \/ DismissCopyError
    \/ \E i \in Threads :
         \/ ThreadSetBurning(i)
         \/ ThreadClearError(i)
         \/ ThreadCopy(i)
         \/ ThreadOkProgress(i)
         \/ ThreadOkEnd(i)
         \/ ThreadErrWrite(i)
         \/ ThreadErrEnd(i)
    \/ FsChange

Spec == Init /\ [][Next]_vars

\* ------------------------------------------------------------------ claims
Others(i) == Threads \ {i}
Alone(i) == \A j \in Others(i) : ~InFlight(j)
\* Thread i ran with no other transfer beside it: every earlier thread had
\* finished when it was spawned, and none has been spawned since.
Sequential(i) == threads[i].spawned_alone /\ i = Len(threads)
Failed(t) == t.result # None /\ t.result[1] # "Ok"
Succeeded(t) == t.result = Some("Ok")

\* C1: at most one copy thread spawned by manual_copy_iso has started and not
\* yet finished, in every reachable state.
C1_AtMostOneInFlight ==
    Cardinality({i \in Threads : InFlight(i)}) <= 1

\* C2: a manual_copy_iso call that began while is_burning was true is
\* rejected: when its confirmation dialog returns, no thread has been spawned
\* and the call's result is an error.
C2_StartWhileRunningRejected ==
    [][(call_running /\ ui_pc = "confirm" /\ ui_pc' # "confirm")
         => (Len(threads') = Len(threads) /\ dialog'[1].title = "Error")]_vars

\* C3: every copy thread was spawned on the answer Yes to the confirmation
\* dialog of the same call, and the source it copies and the drive it copies
\* to are the ones that dialog named.
C3_CopyOnlyAfterConfirmation ==
    \A i \in Threads :
        LET t == threads[i] IN
        /\ t.answer = "Yes"
        /\ t.confirm = ConfirmText(t.iso_path, t.usb_path)
        /\ t.copied_from # None =>
             \E k \in 1..Len(get_usb_drives) :
                LET d == get_usb_drives[k] IN
                /\ t.confirm = ConfirmText(t.copied_from[1], d)
                /\ file_name(t.copied_from[1]) # None
                /\ t.copied_to = Some(join(d, file_name(t.copied_from[1])[1]))

\* C3 witness: a confirmed copy to the second drive has been carried out.
C3_Witness ==
    \E i \in Threads :
        /\ Succeeded(threads[i])
        /\ threads[i].copied_from = Some(ImageFile)
        /\ threads[i].copied_to = Some(join(Usb2, "a.iso"))

\* C4: when a thread whose std::fs::copy returned Ok terminates, progress is
\* exactly 1.0 and, no other transfer being in flight, is_burning is false.
C4_SuccessEndsComplete ==
    [][\A i \in Threads :
         (threads[i].pc = "ok_end" /\ threads'[i].pc = "done")
            => /\ burning_progress' = 1
               /\ Alone(i) => is_burning' = FALSE]_vars

\* C5: a thread whose std::fs::copy returned an error writes a non-empty
\* message into burn_error, then sets is_burning to false as its last write,
\* never writes burning_progress, and does not unwind.
C5_FailureEndsFailed ==
    \A i \in Threads :
        LET t == threads[i]
            n == Len(t.log)
        IN Failed(t) =>
            /\ t.pc \in {"err_write", "err_end", "done"}
            /\ \A k \in 1..n : t.log[k].field # "burning_progress"
            /\ t.pc \in {"err_end", "done"} =>
                 LET w == IF t.pc = "done" THEN t.log[n - 1] ELSE t.log[n] IN
                 /\ w.field = "burn_error"
                 /\ w.value # None
                 /\ w.value[1] # <<>>
            /\ t.pc = "done" => t.log[n] = Write("is_burning", FALSE)

\* C5 witness: a transfer whose write failed has ended.
C5_Witness ==
    \E i \in Threads :
        threads[i].pc = "done" /\ threads[i].result = Some(WriteFailed)

\* C6: no copy thread ends by unwinding; every accepted source path leads
\* to an end through the shared status.
C6_NoThreadUnwinds ==
    \A i \in Threads : threads[i].pc # "panicked"

\* C7: is_burning is true exactly while some transfer has been started and
\* has not yet finished.
C7_RunningIffInFlight ==
    is_burning = (\E i \in Threads : InFlight(i))

\* C8: when a transfer has entered Running and written no result yet,
\* progress is 0, burn_error is None and is_burning is true (stated for a
\* transfer started after every earlier one had finished).
C8_StatusResetAtStart ==
    \A i \in Threads :
        (threads[i].pc = "copy" /\ Sequential(i))
            => (burning_progress = 0 /\ burn_error = None /\ is_burning)

\* C9: every value of progress is within [0, 1], and the values the UI
\* reads at line 191 while one transfer is in flight never decrease.
C9_ProgressMonotone ==
    /\ 0 <= burning_progress /\ burning_progress <= 1
    /\ 0 <= ui_progress /\ ui_progress <= 1
    /\ \A i \in Threads :
         LET ps == threads[i].polls IN
         \A k \in 1..Len(ps) :
            /\ 0 <= ps[k] /\ ps[k] <= 1
            /\ k > 1 => ps[k] >= ps[k - 1]

\* C9 witness: two polls within one transfer read 0 and then 1.
C9_Witness ==
    /\ Len(threads) = 1
    /\ threads[1].pc = "ok_end"
    /\ threads[1].polls = <<0, 1>>
    /\ ui_pc = "button" /\ ui_is_burning /\ ui_progress = 1

\* C10: no state has is_burning set to true by a new transfer (it is past
\* line 82, not past line 83) while burn_error still holds the message of an
\* earlier transfer (stated for a transfer started after every earlier one
\* had finished).
C10_ErrorClearedWithRunning ==
    \A i \in Threads :
        (threads[i].pc = "clear" /\ Sequential(i))
            => ~(is_burning /\ burn_error # None /\ error_from \in Others(i))

\* C11: is_burning = false is the last write a transfer thread makes to the
\* shared status: it is the final entry of the thread's writes, the thread
\* has returned once it is made, and a returned thread has made it.
C11_RunningClearedLast ==
    \A i \in Threads :
        LET t == threads[i]
            n == Len(t.log)
        IN /\ \A k \in 1..n :
                (t.log[k].field = "is_burning" /\ ~t.log[k].value)
                    => (k = n /\ t.pc = "done")
           /\ t.pc = "done" =>
                (n >= 2 /\ t.log[n].field = "is_burning" /\ ~t.log[n].value
                 /\ t.log[n - 1].field \in {"burning_progress", "burn_error"})

\* C11 witness: the UI has read is_burning = false after a transfer wrote
\* its progress and then cleared the flag.
C11_Witness ==
    /\ Len(threads) = 1
    /\ threads[1].pc = "done"
    /\ Len(threads[1].log) = 4
    /\ threads[1].log[3] = Write("burning_progress", 1)
    /\ ui_pc = "poll_progress" /\ ~ui_is_burning

\* No two transfers have been in flight together so far.
NeverOverlapped == \A j \in Threads : threads[j].spawned_alone

\* C12: a message a transfer wrote into burn_error leaves it in one way
\* only: take() at line 221 returns it to the "Copying Error" dialog and
\* clears it, so that it is shown once, never erased unread and never shown
\* twice (stated for runs in which transfers never overlap).
C12_FailureSurfacedOnce ==
    [][(/\ NeverOverlapped
        /\ burn_error # None
        /\ burn_error' # burn_error \/ error_from' # error_from)
          => (/\ ui_pc = "check_error"
              /\ dialog' = Dialog("Copying Error", burn_error[1])
              /\ burn_error' = None)]_vars

\* A click on "Copy ISO": the step that enters manual_copy_iso.
CopyClicked == ui_pc = "button" /\ ui_pc' \in {"confirm", "result_dialog"}

\* C13: with iso_path empty or no drive selected, manual_copy_iso returns
\* its error at once: the error dialog of lines 211-216 follows, no
\* confirmation dialog is shown, no thread is spawned, and burning_progress,
\* is_burning and burn_error are as before.
C13_BlankInputsRejected ==
    [][(CopyClicked /\ (iso_path = <<>> \/ selected_drive = None))
          => (/\ ui_pc' = "result_dialog"
              /\ dialog' = Dialog("Error",
                     IF iso_path = <<>> THEN ErrNoIso ELSE ErrNoDrive)
              /\ threads' = threads
              /\ UNCHANGED <<burning_progress, is_burning, burn_error>>)]_vars

\* C13 witness: the call was rejected for the missing drive while an ISO
\* path was set.
C13_Witness ==
    /\ ui_pc = "result_dialog"
    /\ dialog = Dialog("Error", ErrNoDrive)
    /\ iso_path = ImageFile /\ selected_drive = None

\* The path names a readable file now (what a check at validation time sees).
SourceReadable(path) == path = ImageFile /\ readable

\* C14: with both inputs given and a source path that is no readable file,
\* manual_copy_iso returns an error at once: no confirmation dialog is
\* shown and no thread is spawned.
C14_UnreadableSourceRejected ==
    [][(/\ CopyClicked
        /\ iso_path # <<>> /\ selected_drive # None
        /\ ~SourceReadable(iso_path))
          => (/\ ui_pc' = "result_dialog"
              /\ dialog'[1].title = "Error"
              /\ threads' = threads)]_vars

\* Thread i wrote burning_progress (std::fs::metadata succeeded at line 88).
WroteProgress(t) ==
    \E k \in 1..Len(t.log) : t.log[k].field = "burning_progress"

C16_SnapshotOfRequest ==
    [][\A i \in Threads :
         /\ threads'[i].iso_path = threads[i].iso_path
         /\ threads'[i].usb_path = threads[i].usb_path
         /\ (threads[i].pc = "copy" /\ threads'[i].pc \in {"metadata", "err_write"})
              => /\ threads'[i].copied_from = Some(threads[i].iso_path)
                 /\ threads'[i].copied_to =
                      Some(join(threads[i].usb_path,
                                file_name(threads[i].iso_path)[1]))]_vars

\* C16 witness: a thread is about to copy its image while the UI by now
\* shows another path and another drive.
C16_Witness ==
    \E i \in Threads :
        /\ threads[i].pc = "copy"
        /\ threads[i].iso_path = ImageFile
        /\ iso_path # ImageFile
        /\ selected_drive # Some(threads[i].usb_path)

\* A step of the widgets of lines 129-179, the refresh button among them.
WidgetStep ==
    ui_pc = "widgets" /\ ui_pc' = "widgets" /\ threads' = threads /\ readable' = readable

\* The list holds only non-empty identifiers and no identifier twice, and
\* the selected drive is one of its entries.
DriveListWellFormed(list, selected) ==
    /\ \A k \in 1..Len(list) : list[k] # <<>>
    /\ \A k, l \in 1..Len(list) : list[k] = list[l] => k = l
    /\ selected # None => \E k \in 1..Len(list) : list[k] = selected[1]

\* C17: the list get_usb_drives returned, at construction and at every
\* refresh, holds only non-empty identifiers and no identifier twice, and
\* the widget step that fetches it leaves burning_progress, is_burning and
\* burn_error as they were.
C17_DriveListWellFormed ==
    /\ DriveListWellFormed(usb_drives, selected_drive)
    /\ [][/\ usb_drives' = get_usb_drives
          /\ DriveListWellFormed(usb_drives', selected_drive')
          /\ WidgetStep => UNCHANGED <<burning_progress, is_burning, burn_error>>]_vars

\* C17 witness: the list is on screen during a transfer and its second
\* entry has been selected.
C17_Witness ==
    /\ ui_pc = "widgets"
    /\ Len(usb_drives) = 2
    /\ selected_drive = Some(usb_drives[2])
    /\ \E i \in Threads : InFlight(i)

\* Thread i waits for a mutex: it is in flight and has no step to take.
\* (A copy thread locks and unlocks within one statement, lines 82, 83, 89,
\* 91, 95, 96, and so does the UI thread at lines 190 and 191; the one guard
\* alive across steps is the UI's guard of burn_error, error_guard.)
Waits(i) == InFlight(i) /\ ~ENABLED ThreadStep(i)

\* C18: the status locks cannot deadlock: the only mutex held across steps
\* is burn_error, by the UI thread and only while its error dialog is shown;
\* the UI thread never waits for a mutex; a copy thread waits only for
\* burn_error (lines 83, 95) and only while that dialog is shown, and
\* closing the dialog, which releases the mutex, is possible then.
C18_NoLockDeadlock ==
    /\ error_guard \in {"free", "ui"}
    /\ error_guard = "ui" <=> ui_pc = "copy_error_dialog"
    /\ ENABLED UiStep
    /\ \A i \in Threads :
         Waits(i) => (/\ threads[i].pc \in {"clear", "err_write"}
                      /\ ui_pc = "copy_error_dialog"
                      /\ ENABLED DismissCopyError)

\* C18 witness: a copy thread waits at line 95 for burn_error while the UI
\* shows the error of another transfer.
C18_Witness ==
    /\ ui_pc = "copy_error_dialog"
    /\ \E i \in Threads : Waits(i) /\ threads[i].pc = "err_write"

\* The confirmation dialog of the current call returns: the step at line 70.
ConfirmReturns == ui_pc = "confirm" /\ ui_pc' = "result_dialog"

\* C19: when the confirmation dialog returns anything other than Yes,
\* manual_copy_iso returns Err("Copy cancelled by user"), spawns no thread
\* and leaves burning_progress, is_burning, burn_error, iso_path and
\* selected_drive as they were.
C19_DeclineChangesNothing ==
    [][(ConfirmReturns /\ confirm_answer' # Some("Yes"))
          => (/\ dialog' = Dialog("Error", ErrCancelled)
              /\ threads' = threads
              /\ UNCHANGED <<burning_progress, is_burning, burn_error,
                             iso_path, selected_drive>>)]_vars

\* C19 witness: the dialog was closed without an answer while an earlier
\* transfer is in flight, and the call has returned its error.
C19_Witness ==
    /\ ui_pc = "result_dialog"
    /\ confirm_answer = Some("Cancel")
    /\ dialog = Dialog("Error", ErrCancelled)
    /\ \E i \in Threads : InFlight(i)

\* C20: manual_copy_iso returns Ok, and the success dialog is shown, exactly
\* when the call has spawned a thread, and it returns with that thread still
\* at its first statement: it does not wait for the copy.
C20_OkMeansSpawnedOnly ==
    [][(ui_pc \in {"button", "confirm"} /\ ui_pc' = "result_dialog")
          => /\ dialog' = Dialog("Success", OkText)
                   <=> Len(threads') = Len(threads) + 1
             /\ Len(threads') = Len(threads) + 1
                   => (/\ threads'[Len(threads')].pc = "start"
                       /\ threads'[Len(threads')].result = None
                       /\ \A i \in Threads : threads'[i] = threads[i])
             /\ Len(threads') # Len(threads) + 1 => threads' = threads]_vars

\* C20 witness: the success dialog of a call is still on screen and the
\* transfer it started has ended Failed, its message in burn_error.
C20_Witness ==
    /\ ui_pc = "result_dialog"
    /\ dialog = Dialog("Success", OkText)
    /\ threads # <<>>
    /\ LET t == threads[Len(threads)] IN
       /\ t.pc = "done" /\ Failed(t)
       /\ burn_error = BurnErrorOnFailure(t.result[1])
       /\ error_from = Len(threads)

====
